---------------------------- MODULE Spec2Model ----------------------------
(***************************************************************************)
(* The conversational core of ai-agent-hub/backend/server.js: the chat     *)
(* endpoint, handleConversation, the two module-level Maps                 *)
(* (conversationHistories, conversationAttachments), the Google credential *)
(* and the tool handlers as the agent loop drives them.                    *)
(*                                                                         *)
(* Node runs every callback to completion, so one action is one stretch of *)
(* synchronous code between two awaits.  The awaits of handleConversation  *)
(* are createAgentExecutor() (line 935) and executor.invoke() (line 948);  *)
(* inside invoke the AgentExecutor built at line 920 alternates a call to  *)
(* the reasoning backend with a tool call, at most maxIterations times.    *)
(* What the reasoning backend answers and whether an external service call *)
(* succeeds are inputs, chosen when the step that uses them runs.          *)
(*                                                                         *)
(* Spec is the chat endpoint with its concurrent turns, one tool call per  *)
(* round trip.  DispatchSpec follows the tool calls of one round trip call *)
(* by call.  MailSpec is the two mail endpoints (/api/gmail/send and       *)
(* /api/gmail/draft).  MimeSpec applies the message builders               *)
(* (createSimpleEmail, createEmailWithAttachments), as the mail tools call *)
(* them, to arguments drawn from the inputs; texts are strings and base64  *)
(* is computed character by character.                                     *)
(***************************************************************************)
EXTENDS Integers, Sequences, FiniteSets, TLC

\* ------------------------------------------------------------------ bounds

\* chat requests that arrive during a run
MaxRequests == 2

\* ------------------------------------------------------- program constants

\* a cap that lets one round trip more through
maxIterationsOffByOne == 8 + 1

\* new AgentExecutor({ agent, tools, verbose: false, maxIterations: 8 })
maxIterations == 8

\* ------------------------------------------------------------------ inputs

Requests == 1..MaxRequests

\* session ids a caller can supply in req.body.sessionId; "" is a request
\* that carries none
SessionIds == {"s1", "s2"}

NoSessionId == ""

\* `session_${Date.now()}`: the id the endpoint makes up for such a request
GeneratedSessionIds == {"session_t"}

AllSessionIds == SessionIds \cup GeneratedSessionIds

\* the text request r sends (every request has its own, so that a turn of
\* the history names the request it came from); << >> is a request without
\* a message
Msg(r) == <<"msg", r>>

NoMessage == << >>

MessageInputs(r) == {NoMessage, Msg(r)}

\* the file request r uploads ({name, type, data, size} on the wire); src is
\* the request that uploaded it, 0 for a file the model passes in the tool
\* arguments
Upload(r) == [name |-> "upload", src |-> r]

ArgFile == [name |-> "arg", src |-> 0]

\* req.body.attachments of request r.  An absent list and an empty one take
\* the same branch wherever the code looks at it (lines 930, 944), so << >>
\* stands for both.
AttachmentInputs(r) == {<< >>, <<Upload(r)>>}

\* the attachments argument the model passes to send_email / draft_email
\* (absent or empty: << >>, line 147)
ArgAttachmentInputs == {<< >>, <<ArgFile>>}

\* tools of the registry, one per family: the two attachment-aware mail
\* tools and one pure external-call tool
ToolNames == {"send_email", "draft_email", "list_emails"}

\* the arguments the model passes in a tool call, as the tool's zod schema
\* sees them: "valid" parses, "invalid" does not (a required field such as
\* to, subject or body is missing, or a field has the wrong type)
ArgsInputs == {"valid", "invalid"}

\* what the awaited service call of a handler does
ServiceResults == {"resolves", "rejects"}

\* result.output of a turn the backend ended with an answer, and of a turn
\* the executor stopped at the iteration cap
Answer(r) == <<"answer", r>>

StoppedOutput == <<"Agent stopped due to max iterations.">>

NoOutput == << >>

\* `Error: ${err.message}`, the message of a turn that failed; err is what
\* was thrown: by createAgentExecutor, by the call to the reasoning backend,
\* by the parse of a tool call's arguments ("schema") or by a tool handler
ErrorMessage(err) == <<"Error", err>>

\* the message a mail tool hands to Gmail: which builder made it and the
\* attachments it carries
NoEnvelope == [builder |-> "none", attachments |-> << >>]

\* to, subject and body of a mail request or of a mail tool call; "" is a
\* field that is missing or empty (both are falsy at lines 1002, 1021)
ToInputs == {"", "a@x.io"}

SubjectInputs == {"", "Hi"}

BodyInputs == {"", "Hello", "<b>Hi</b>"}

\* cc / bcc as given: a string of comma-separated addresses ("" also stands
\* for an absent field: both are falsy at lines 155, 1004) or, at the mail
\* endpoints, an array
RecipientString(text) == [isArray |-> FALSE, text |-> text, list |-> << >>]

RecipientArray(list) == [isArray |-> TRUE, text |-> "", list |-> list]

\* the tools take strings (z.string().optional())
ToolCcInputs ==
    {RecipientString(""), RecipientString(" "), RecipientString("c@x.io"),
     RecipientString(" c@x.io ,d@x.io")}

ToolBccInputs == {RecipientString(""), RecipientString(" "), RecipientString("b@x.io")}

EndpointCcInputs ==
    {RecipientString(""), RecipientString("c@x.io"),
     RecipientArray(<< >>), RecipientArray(<<"c@x.io">>)}

EndpointBccInputs == {RecipientString(""), RecipientString("b@x.io")}

\* a file as the frontend sends it: {name, type, data}, data a data URI
TextFile == [name |-> "n.txt", type |-> "text/plain", data |-> "data:text/plain;base64,SGk="]

\* a file whose data is plain base64, 160 characters of it
BigFile ==
    [name |-> "big.bin", type |-> "application/octet-stream",
     data |-> "QUJDREVGR0hJSktMTU5PUFFSU1RVVldYWVowMTIzNDU2Nzg5QUJDREVGR0hJSktMTU5PUFFSU1RVVldY"
                  \o "WVowMTIzNDU2Nzg5QUJDREVGR0hJSktMTU5PUFFSU1RVVldYWVowMTIzNDU2Nzg5QUJDREVGR0hJSktM"]

\* a file whose data URI names a media type with a parameter
ParamFile ==
    [name |-> "p.txt", type |-> "text/plain",
     data |-> "data:text/plain;charset=utf-8;base64,SGk="]

\* the attachments of a mail request / the files a mail tool ends up with
MailAttachmentInputs == {<< >>, <<TextFile>>, <<BigFile, TextFile>>, <<ParamFile>>}

\* Date.now(), as the text the template literal makes of it
NowInputs == {"1730000000000"}

\* two consecutive milliseconds of the clock, as Date.now() reads them
Ticks == <<"1730000000000", "1730000000001">>

\* line 84: const boundary = `boundary_${Date.now()}` (written here with the
\* template's parts)
boundaryToken(now) == "boundary_" \o now

\* the Gmail call a tool awaits (of list_emails: the first one)
ServiceOf(name) ==
    IF name = "send_email" THEN "messages.send"
    ELSE IF name = "draft_email" THEN "drafts.create"
    ELSE "messages.list"

\* a mail request or mail tool call and, once it was handled, its outcome:
\* the HTTP status, the Gmail call that was issued and the raw message
MailRequest(endpoint, to, subject, body, cc, bcc, attachments, now) ==
    [endpoint |-> endpoint, to |-> to, subject |-> subject, body |-> body,
     cc |-> cc, bcc |-> bcc, attachments |-> attachments, now |-> now,
     status |-> 0, call |-> "none", raw |-> ""]

\* ------------------------------------------------------------------- state

VARIABLES
    tokens,                  \* let tokens = null (TRUE: a credential is held)
    conversationHistories,   \* Map sessionId -> array of {role, content}:
                             \* [has, turns] for every id
    conversationAttachments, \* Map sessionId -> attachments, in insertion order
    req,                     \* the chat requests: where each one stands
    lastCall,                \* the latest tool invocation: what it built for
                             \* the service and what it returned
    offered,                 \* history variable: the requests whose staged
                             \* files some tool invocation was given
    calls,                   \* the tool calls of the round trip under way,
                             \* where the dispatch is followed call by call
    mail                     \* the latest request to a mail endpoint (or
                             \* envelope a mail tool built) and its outcome

vars == <<tokens, conversationHistories, conversationAttachments, req, lastCall, offered,
          calls, mail>>

\* an id conversationHistories has no entry for, and the entry of a new session
NoSession == [has |-> FALSE, turns |-> << >>]

NewSession == [has |-> TRUE, turns |-> << >>]

\* a request that has not arrived
IdleRequest ==
    [pc |-> "idle", sid |-> NoSessionId, userMessage |-> NoMessage,
     attachments |-> << >>, iterations |-> 0, output |-> NoOutput]

\* no tool was invoked yet
NoCall ==
    [by |-> 0, args |-> "none", explicit |-> << >>, service |-> "none",
     observation |-> "none", envelope |-> NoEnvelope, again |-> FALSE]

\* no mail endpoint was called yet
NoMail ==
    MailRequest("none", "", "", "", RecipientString(""), RecipientString(""), << >>, "")

Init ==
    /\ tokens = FALSE
    /\ conversationHistories = [s \in AllSessionIds |-> NoSession]
    /\ conversationAttachments = << >>
    /\ req = [r \in Requests |-> IdleRequest]
    /\ lastCall = NoCall
    /\ offered = {}
    /\ calls = << >>
    /\ mail = NoMail

\* ------------------------------------------------------- Map (ordered) ops

\* Map.prototype.has / get / set / delete on conversationAttachments, a
\* sequence of [key, value] entries in insertion order
MapIndex(m, k) == {i \in 1..Len(m) : m[i].key = k}

MapHas(m, k) == MapIndex(m, k) # {}

\* a set that adds the new files to the ones the key already has
MapSetConcat(m, k, v) ==
    IF MapHas(m, k)
    THEN [i \in 1..Len(m) |->
             IF m[i].key = k THEN [key |-> k, value |-> m[i].value \o v] ELSE m[i]]
    ELSE Append(m, [key |-> k, value |-> v])

MapSet(m, k, v) ==
    IF MapHas(m, k)
    THEN [i \in 1..Len(m) |-> IF m[i].key = k THEN [key |-> k, value |-> v] ELSE m[i]]
    ELSE Append(m, [key |-> k, value |-> v])

MapDelete(m, k) == SelectSeq(m, LAMBDA e : e.key # k)

\* ---------------------------------------------------------- tool handlers

\* ensureAuthenticated(): throws unless a credential is held
ensureAuthenticated == tokens

\* lines 147-153 (send_email) and 201-207 (draft_email): the attachments
\* argument, overridden by the first non-empty value of
\* conversationAttachments.entries(), whatever its key
StagedHits == {i \in 1..Len(conversationAttachments) : Len(conversationAttachments[i].value) > 0}

FirstStagedIndex == CHOOSE i \in StagedHits : \A j \in StagedHits : i <= j

\* a handler that prefers the attachments of its arguments
finalAttachmentsExplicitFirst(attachments) ==
    IF Len(attachments) > 0 \/ StagedHits = {} THEN attachments
    ELSE conversationAttachments[FirstStagedIndex].value

finalAttachments(attachments) ==
    IF StagedHits = {} THEN attachments ELSE conversationAttachments[FirstStagedIndex].value

\* lines 158-163, 212-217: the builder the handler calls and what it is given
BuildEnvelope(atts) ==
    IF Len(atts) > 0
    THEN [builder |-> "createEmailWithAttachments", attachments |-> atts]
    ELSE [builder |-> "createSimpleEmail", attachments |-> << >>]

\* a handler that lets the exception out
HandlerRethrows(envelope) ==
    [throws |-> TRUE, observation |-> "none", envelope |-> envelope, count |-> 0]

\* catch (err) { return `❌ Error ...: ${err.message}` } of every handler
HandlerCatch(envelope) ==
    [throws |-> FALSE, observation |-> "error", envelope |-> envelope, count |-> 0]

\* return `✅ ... with ${finalAttachments.length} attachment(s)`: count is
\* the number the text gives
HandlerReturn(envelope) ==
    [throws |-> FALSE, observation |-> "ok", envelope |-> envelope,
     count |-> Len(envelope.attachments)]

\* sendEmailTool / draftEmailTool: try { ensureAuthenticated(); pick the
\* attachments; build the message; await the Gmail call; return the success
\* text } catch { return the error text }
MailTool(attachments, service) ==
    IF ~ensureAuthenticated THEN HandlerCatch(NoEnvelope)
    ELSE LET envelope == BuildEnvelope(finalAttachments(attachments))
         IN  IF service = "rejects" THEN HandlerCatch(envelope) ELSE HandlerReturn(envelope)

\* listEmailsTool and the other pure external-call tools: the same try/catch
\* around ensureAuthenticated() and one awaited service call
ExternalCallTool(service) ==
    IF ~ensureAuthenticated \/ service = "rejects"
    THEN HandlerCatch(NoEnvelope)
    ELSE HandlerReturn(NoEnvelope)

InvokeTool(name, attachments, service) ==
    IF name \in {"send_email", "draft_email"}
    THEN MailTool(attachments, service)
    ELSE ExternalCallTool(service)

\* the staged files a mail tool invocation is given now (<< >>: none)
StagedGiven(name) ==
    IF name \in {"send_email", "draft_email"} /\ ensureAuthenticated /\ StagedHits # {}
    THEN conversationAttachments[FirstStagedIndex].value
    ELSE << >>

\* ------------------------------------------------------ handleConversation

\* a completion that forgets the user turn
PushTurnsAssistantOnly(chatHistory, userMessage, assistantOutput) ==
    Append(chatHistory, [role |-> "assistant", content |-> assistantOutput])

\* a completion that puts the new turns in front
PushTurnsUnshift(chatHistory, userMessage, assistantOutput) ==
    <<[role |-> "user", content |-> userMessage],
      [role |-> "assistant", content |-> assistantOutput]>> \o chatHistory

\* a completion that pushes the answer before the user turn
PushTurnsAnswerFirst(chatHistory, userMessage, assistantOutput) ==
    Append(Append(chatHistory, [role |-> "assistant", content |-> assistantOutput]),
           [role |-> "user", content |-> userMessage])

\* lines 955-956: the two pushes onto the session's array
PushTurns(chatHistory, userMessage, assistantOutput) ==
    Append(Append(chatHistory, [role |-> "user", content |-> userMessage]),
           [role |-> "assistant", content |-> assistantOutput])

\* a chat endpoint that looks at the credential before the message
AdmissionAuthFirst(message) ==
    IF ~tokens THEN "r401" ELSE IF message = NoMessage THEN "r400" ELSE "creating"

\* lines 1038-1039: if (!message) return 400; if (!tokens) return 401;
\* otherwise the request goes on to handleConversation
Admission(message) ==
    IF message = NoMessage THEN "r400" ELSE IF ~tokens THEN "r401" ELSE "creating"

\* a handler that starts every request on an empty array
CreateHistoryAlways(sid) == [conversationHistories EXCEPT ![sid] = NewSession]

\* lines 926-928: if (!conversationHistories.has(sessionId))
\* conversationHistories.set(sessionId, [])
CreateHistoryIfAbsent(sid) ==
    IF ~conversationHistories[sid].has
    THEN [conversationHistories EXCEPT ![sid] = NewSession]
    ELSE conversationHistories

\* POST /api/agent/chat (lines 1035-1041) and handleConversation up to its
\* first await (lines 926-935); req[r].userMessage keeps req.body.message
\* and req[r].attachments the attachments handleConversation was given
ChatRequest(r) ==
    /\ req[r].pc = "idle"
    /\ \A q \in Requests : q < r => req[q].pc # "idle"
    /\ \E message \in MessageInputs(r), sessionId \in SessionIds \cup {NoSessionId},
          attachments \in AttachmentInputs(r), now \in GeneratedSessionIds :
          IF Admission(message) # "creating"
          THEN /\ req' = [req EXCEPT ![r].pc = Admission(message),
                                     ![r].userMessage = message]
               /\ UNCHANGED <<conversationHistories, conversationAttachments>>
          ELSE LET sid == IF sessionId = NoSessionId THEN now ELSE sessionId
               IN  /\ conversationHistories' = CreateHistoryIfAbsent(sid)
                   /\ conversationAttachments' =
                          IF Len(attachments) > 0
                          THEN MapSet(conversationAttachments, sid, attachments)
                          ELSE conversationAttachments
                   /\ req' = [req EXCEPT ![r].pc = "creating", ![r].sid = sid,
                                         ![r].userMessage = message,
                                         ![r].attachments = attachments]
    /\ UNCHANGED <<tokens, lastCall, offered, calls, mail>>

\* createAgentExecutor() resolved: lines 937-948, up to the await of invoke.
\* formattedHistory and inputMessage are made here and handed to invoke; the
\* handler does not read them again.
ExecutorCreated(r) ==
    /\ req[r].pc = "creating"
    /\ req' = [req EXCEPT ![r].pc = "reasoning"]
    /\ UNCHANGED <<tokens, conversationHistories, conversationAttachments, lastCall, offered, calls, mail>>

\* a failure path that records the user turn all the same
TurnFailsRecordingUser(r, err) ==
    /\ req' = [req EXCEPT ![r].pc = "failed", ![r].output = ErrorMessage(err),
                          ![r].iterations = 0]
    /\ conversationHistories' =
           [conversationHistories EXCEPT ![req[r].sid].turns =
               Append(@, [role |-> "user", content |-> req[r].userMessage])]
    /\ UNCHANGED <<tokens, conversationAttachments, lastCall, offered, calls, mail>>

\* catch (err) of handleConversation, lines 963-966:
\* return { message: `Error: ${err.message}`, success: false }
\* (the executor and its round-trip counter are gone with the call)
TurnFails(r, err) ==
    /\ req' = [req EXCEPT ![r].pc = "failed", ![r].output = ErrorMessage(err),
                          ![r].iterations = 0]
    /\ UNCHANGED <<tokens, conversationHistories, conversationAttachments, lastCall, offered, calls, mail>>

\* createAgentExecutor() rejected
ExecutorCreationFails(r) ==
    /\ req[r].pc = "creating"
    /\ TurnFails(r, "createAgentExecutor")

\* invoke resolved: lines 953-962
TurnCompletes(r, assistantOutput) ==
    /\ conversationHistories' =
           [conversationHistories EXCEPT ![req[r].sid].turns =
               PushTurns(@, req[r].userMessage, assistantOutput)]
    /\ conversationAttachments' =
           IF MapHas(conversationAttachments, req[r].sid)
           THEN MapDelete(conversationAttachments, req[r].sid)
           ELSE conversationAttachments
    /\ req' = [req EXCEPT ![r].pc = "done", ![r].output = assistantOutput,
                          ![r].iterations = 0]
    /\ UNCHANGED <<tokens, lastCall, offered, calls, mail>>

\* ------------------------------------------------------- the agent executor

\* AgentExecutor.shouldContinue: the loop of invoke runs while fewer than
\* maxIterations round trips were made
shouldContinue(iterations) == iterations < maxIterations

\* the reasoning backend gives its final answer: invoke resolves with it
ReasonAnswers(r) ==
    /\ req[r].pc = "reasoning"
    /\ shouldContinue(req[r].iterations)
    /\ TurnCompletes(r, Answer(r))

\* the call to the reasoning backend fails: invoke rejects
ReasonFails(r) ==
    /\ req[r].pc = "reasoning"
    /\ shouldContinue(req[r].iterations)
    /\ TurnFails(r, "reasoning")

\* an executor that rejects invoke at the cap
IterationCapRejects(r) ==
    /\ req[r].pc = "reasoning"
    /\ ~shouldContinue(req[r].iterations)
    /\ TurnFails(r, "reasoning")

\* the loop ends without an answer: invoke resolves with the stopped output
\* (the executor's default early stopping, "force")
IterationCap(r) ==
    /\ req[r].pc = "reasoning"
    /\ ~shouldContinue(req[r].iterations)
    /\ TurnCompletes(r, StoppedOutput)

\* new AgentExecutor({ agent, tools, verbose: false, maxIterations: 8 }):
\* handleParsingErrors is not given, so the executor has its default, false
handleParsingErrors == FALSE

\* tool({...schema: z.object(...)}): the wrapper parses the arguments with
\* the schema and calls the handler only with arguments that parse
SchemaAccepts(args) == args = "valid"

\* the arguments did not parse: tool.invoke rejects with a
\* ToolInputParsingException before the handler is called.  An executor with
\* handleParsingErrors makes an error observation of it and goes on; without
\* it the executor rethrows, invoke rejects and the catch of
\* handleConversation ends the turn.
ParsingError(r) ==
    IF handleParsingErrors
    THEN /\ req' = [req EXCEPT ![r].iterations = @ + 1]
         /\ lastCall' = [by |-> r, args |-> "invalid", explicit |-> << >>,
                         service |-> "none", observation |-> "error",
                         envelope |-> NoEnvelope, again |-> FALSE]
         /\ UNCHANGED <<tokens, conversationHistories, conversationAttachments,
                        offered, calls, mail>>
    ELSE /\ req' = [req EXCEPT ![r].pc = "failed", ![r].output = ErrorMessage("schema"),
                               ![r].iterations = 0]
         /\ lastCall' = [by |-> r, args |-> "invalid", explicit |-> << >>,
                         service |-> "none",
                         observation |-> "ToolInputParsingException",
                         envelope |-> NoEnvelope, again |-> FALSE]
         /\ UNCHANGED <<tokens, conversationHistories, conversationAttachments,
                        offered, calls, mail>>

\* the requests whose staged files are among atts
Stagers(atts) == {atts[i].src : i \in 1..Len(atts)} \ {0}

\* one round trip: the reasoning backend asks for a tool call, the executor
\* calls the tool (the wrapper parses the arguments, then runs the handler)
\* and what the handler returns becomes the observation the
\* next reasoning step sees; an exception of the handler would reject invoke.
\* The backend's answer and the start of the handler are one stretch of
\* synchronous code; nothing after the handler's awaited service call reads
\* shared state, so its outcome is chosen here as well.  lastCall.explicit
\* keeps the attachments argument a mail tool was called with.
ToolRoundTrip(r) ==
    /\ req[r].pc = "reasoning"
    /\ shouldContinue(req[r].iterations)
    /\ \E name \in ToolNames, args \in ArgsInputs,
          attachments \in ArgAttachmentInputs, service \in ServiceResults :
          LET result == InvokeTool(name, attachments, service)
          IN  IF ~SchemaAccepts(args)
              THEN ParsingError(r)
              ELSE IF result.throws
              THEN TurnFails(r, "tool")
              ELSE /\ req' = [req EXCEPT ![r].iterations = @ + 1]
                   /\ lastCall' = [by |-> r, args |-> args,
                                   explicit |-> IF name \in {"send_email", "draft_email"}
                                                THEN attachments ELSE << >>,
                                   service |-> service,
                                   observation |-> result.observation,
                                   envelope |-> result.envelope,
                                   again |-> Stagers(StagedGiven(name)) \cap offered # {}]
                   /\ offered' = offered \cup Stagers(StagedGiven(name))
                   /\ UNCHANGED <<tokens, conversationHistories, conversationAttachments, calls, mail>>

\* GET /auth/google/callback, the exchange of the code having succeeded
AuthCallback ==
    /\ tokens' = TRUE
    /\ UNCHANGED <<conversationHistories, conversationAttachments, req, lastCall, offered, calls, mail>>

Next ==
    \/ AuthCallback
    \/ \E r \in Requests :
          \/ ChatRequest(r)
          \/ ExecutorCreated(r)
          \/ ExecutorCreationFails(r)
          \/ ReasonAnswers(r)
          \/ ReasonFails(r)
          \/ ToolRoundTrip(r)
          \/ IterationCap(r)

Spec == Init /\ [][Next]_vars

\* the liveness claims: every response the server waits for arrives (the
\* event loop runs a callback that is ready; the backend and the services
\* answer or fail)
TurnStep(r) ==
    \/ ExecutorCreated(r)
    \/ ExecutorCreationFails(r)
    \/ ReasonAnswers(r)
    \/ ReasonFails(r)
    \/ ToolRoundTrip(r)
    \/ IterationCap(r)

FairSpec == Spec /\ \A r \in Requests : WF_vars(TurnStep(r))

\* ------------------------------------- the dispatch of one round trip

\* tool calls the reasoning backend asks for in one answer
MaxCalls == 2

\* the answers of the backend that ask for tools: 1..MaxCalls tool names
ToolCallInputs == UNION {[1..n -> ToolNames] : n \in 1..MaxCalls}

\* one turn under way, followed call by call: the credential is held, the
\* request of session "s1" is in its executor run, with or without a file
\* in staging; a second request, of session "s2", has not arrived or has
\* failed at createAgentExecutor and left its file staged
DispatchInit ==
    /\ tokens = TRUE
    /\ lastCall = NoCall
    /\ offered = {}
    /\ calls = << >>
    /\ mail = NoMail
    /\ \E attachments \in AttachmentInputs(1), other \in {"idle", "failed"} :
          /\ conversationHistories =
                 [s \in AllSessionIds |->
                     IF s = "s1" \/ (s = "s2" /\ other = "failed")
                     THEN NewSession ELSE NoSession]
          /\ conversationAttachments =
                 (IF Len(attachments) > 0
                  THEN <<[key |-> "s1", value |-> attachments]>> ELSE << >>)
                 \o (IF other = "failed"
                     THEN <<[key |-> "s2", value |-> <<Upload(2)>>]>> ELSE << >>)
          /\ req = [r \in Requests |->
                       IF r = 1
                       THEN [pc |-> "reasoning", sid |-> "s1", userMessage |-> Msg(1),
                             attachments |-> attachments, iterations |-> 0,
                             output |-> NoOutput]
                       ELSE IF r = 2 /\ other = "failed"
                       THEN [pc |-> "failed", sid |-> "s2", userMessage |-> Msg(2),
                             attachments |-> <<Upload(2)>>, iterations |-> 0,
                             output |-> ErrorMessage("createAgentExecutor")]
                       ELSE IdleRequest]

\* a tool call the backend asked for, its handler not yet started
RequestedCall(name) ==
    [name |-> name, status |-> "requested", explicit |-> << >>,
     envelope |-> NoEnvelope, now |-> 0, boundary |-> "", issued |-> << >>,
     observation |-> "none", count |-> 0]

\* the backend's answer asks for tool calls.  The executor maps an async
\* callback over the requested calls and awaits them together: every
\* callback is created, first to last, in this one synchronous stretch, and
\* none has reached its handler yet
BackendRequestsTools(r) ==
    /\ req[r].pc = "reasoning"
    /\ shouldContinue(req[r].iterations)
    /\ \E names \in ToolCallInputs :
          calls' = [k \in 1..Len(names) |-> RequestedCall(names[k])]
    /\ req' = [req EXCEPT ![r].pc = "dispatching"]
    /\ UNCHANGED <<tokens, conversationHistories, conversationAttachments, lastCall,
                   offered, mail>>

\* the clock does not run backwards: what Date.now() can read after the
\* calls that read it before
ClockNow == {t \in DOMAIN Ticks : \A j \in 1..Len(calls) : calls[j].now <= t}

\* the handler up to its awaited service call (lines 144-169, 198-222):
\* the attachments it ends up with, the message it builds for them (with
\* the boundary of line 84 on the attachment path) and the one Gmail call
\* it issues
HandlerAwaitsService(call, attachments, t) ==
    LET envelope == InvokeTool(call.name, attachments, "resolves").envelope
    IN  [call EXCEPT
            !.status = "running",
            !.explicit = attachments,
            !.envelope = envelope,
            !.now = t,
            !.boundary = IF envelope.builder = "createEmailWithAttachments"
                         THEN boundaryToken(Ticks[t]) ELSE "",
            !.issued = Append(@, ServiceOf(call.name))]

\* the callback of call k resumes (after the callbacks before it) and runs
\* the handler up to its awaited service call (arguments that parse)
HandlerStarts(r, k) ==
    /\ req[r].pc = "dispatching"
    /\ k \in 1..Len(calls)
    /\ calls[k].status = "requested"
    /\ \A j \in 1..(k - 1) : calls[j].status # "requested"
    /\ \E attachments \in ArgAttachmentInputs, t \in ClockNow :
          calls' = [calls EXCEPT ![k] = HandlerAwaitsService(@, attachments, t)]
    /\ UNCHANGED <<tokens, conversationHistories, conversationAttachments, req, lastCall,
                   offered, mail>>

\* a handler that issues its Gmail call once more when it was rejected
ServiceSettlesRetrying(call, service) ==
    IF service = "rejects" /\ Len(call.issued) < 2
    THEN [call EXCEPT !.issued = Append(@, ServiceOf(call.name))]
    ELSE LET result == IF service = "rejects" THEN HandlerCatch(call.envelope)
                       ELSE HandlerReturn(call.envelope)
         IN  [call EXCEPT !.status = "returned", !.observation = result.observation,
                          !.count = result.count]

\* the awaited Gmail call settles (lines 166-174, 219-227): the handler
\* returns the success text, or its catch returns the error text
ServiceSettles(call, service) ==
    LET result == IF service = "rejects" THEN HandlerCatch(call.envelope)
                  ELSE HandlerReturn(call.envelope)
    IN  [call EXCEPT !.status = "returned", !.observation = result.observation,
                     !.count = result.count]

\* the service call of a running handler settles and the handler returns
\* its text
HandlerReturns(r, k) ==
    /\ req[r].pc = "dispatching"
    /\ k \in 1..Len(calls)
    /\ calls[k].status = "running"
    /\ \E service \in ServiceResults :
          calls' = [calls EXCEPT ![k] = ServiceSettles(@, service)]
    /\ UNCHANGED <<tokens, conversationHistories, conversationAttachments, req, lastCall,
                   offered, mail>>

\* every callback has returned: the observations go to the next reasoning step
RoundTripEnds(r) ==
    /\ req[r].pc = "dispatching"
    /\ \A k \in 1..Len(calls) : calls[k].status = "returned"
    /\ req' = [req EXCEPT ![r].pc = "reasoning", ![r].iterations = @ + 1]
    /\ calls' = << >>
    /\ UNCHANGED <<tokens, conversationHistories, conversationAttachments, lastCall,
                   offered, mail>>

DispatchNext ==
    \E r \in Requests :
        \/ BackendRequestsTools(r)
        \/ \E k \in 1..MaxCalls : HandlerStarts(r, k)
        \/ \E k \in 1..MaxCalls : HandlerReturns(r, k)
        \/ RoundTripEnds(r)
        \/ ReasonAnswers(r)
        \/ ReasonFails(r)
        \/ IterationCap(r)

DispatchSpec == DispatchInit /\ [][DispatchNext]_vars

\* ----------------------------------------------------- strings and base64

CRLF == "\r\n"

CharAt(s, i) == SubSeq(s, i, i)

Chars(s) == {CharAt(s, i) : i \in 1..Len(s)}

\* the printable ASCII characters, codes 32 to 95 and 97 to 126 (the texts
\* of the model are ASCII, so a character is one byte of its UTF-8 encoding;
\* code 96 cannot be written in a string of this notation)
PrintableLow == " !\"#$%&'()*+,-./0123456789:;<=>?@ABCDEFGHIJKLMNOPQRSTUVWXYZ[\\]^_"

PrintableHigh == "abcdefghijklmnopqrstuvwxyz{|}~"

\* String.prototype.charCodeAt / String.fromCharCode on those characters
charCode ==
    [c \in Chars(PrintableLow) \cup Chars(PrintableHigh) \cup {"\r", "\n", "\t"} |->
        IF c = "\r" THEN 13
        ELSE IF c = "\n" THEN 10
        ELSE IF c = "\t" THEN 9
        ELSE IF c \in Chars(PrintableLow)
        THEN 31 + (CHOOSE i \in 1..Len(PrintableLow) : CharAt(PrintableLow, i) = c)
        ELSE 96 + (CHOOSE i \in 1..Len(PrintableHigh) : CharAt(PrintableHigh, i) = c)]

fromCharCode(n) ==
    IF n = 13 THEN "\r"
    ELSE IF n = 10 THEN "\n"
    ELSE IF n = 9 THEN "\t"
    ELSE IF n \in 32..95 THEN CharAt(PrintableLow, n - 31)
    ELSE IF n \in 97..126 THEN CharAt(PrintableHigh, n - 96)
    ELSE "?"

\* the alphabet of base64: the character of each 6-bit value
Base64Alphabet == "ABCDEFGHIJKLMNOPQRSTUVWXYZabcdefghijklmnopqrstuvwxyz0123456789+/"

Sextet(n) == CharAt(Base64Alphabet, n + 1)

SextetValue ==
    [c \in Chars(Base64Alphabet) |->
        (CHOOSE i \in 1..Len(Base64Alphabet) : CharAt(Base64Alphabet, i) = c) - 1]

\* one to three bytes make four characters, "=" standing for a missing byte
EncodeGroup(s) ==
    LET b1 == charCode[CharAt(s, 1)]
        b2 == IF Len(s) >= 2 THEN charCode[CharAt(s, 2)] ELSE 0
        b3 == IF Len(s) >= 3 THEN charCode[CharAt(s, 3)] ELSE 0
        n  == b1 * 65536 + b2 * 256 + b3
    IN  Sextet(n \div 262144) \o Sextet((n \div 4096) % 64)
            \o (IF Len(s) >= 2 THEN Sextet((n \div 64) % 64) ELSE "=")
            \o (IF Len(s) >= 3 THEN Sextet(n % 64) ELSE "=")

\* Buffer.from(s, "utf-8").toString("base64")
RECURSIVE toBase64(_)
toBase64(s) ==
    IF s = "" THEN ""
    ELSE IF Len(s) <= 3 THEN EncodeGroup(s)
    ELSE LET h == 3 * ((Len(s) + 5) \div 6)
         IN  toBase64(SubSeq(s, 1, h)) \o toBase64(SubSeq(s, h + 1, Len(s)))

\* String.prototype.replace(/a/g, b) for one character a
RECURSIVE ReplaceChar(_, _, _)
ReplaceChar(s, a, b) ==
    IF s = "" THEN ""
    ELSE IF Len(s) = 1 THEN (IF s = a THEN b ELSE s)
    ELSE LET h == Len(s) \div 2
         IN  ReplaceChar(SubSeq(s, 1, h), a, b) \o ReplaceChar(SubSeq(s, h + 1, Len(s)), a, b)

\* .replace(/=+$/, "")
RECURSIVE StripPadding(_)
StripPadding(s) ==
    IF s # "" /\ CharAt(s, Len(s)) = "="
    THEN StripPadding(SubSeq(s, 1, Len(s) - 1))
    ELSE s

\* Buffer.from(message).toString("base64").replace(/\+/g, "-")
\*     .replace(/\//g, "_").replace(/=+$/, "")
toBase64Url(message) ==
    StripPadding(ReplaceChar(ReplaceChar(toBase64(message), "+", "-"), "/", "_"))

\* the first index at which pat occurs in s, 0 if it does not
IndexOf(s, pat) ==
    LET hits == {i \in 1..(Len(s) - Len(pat) + 1) : SubSeq(s, i, i + Len(pat) - 1) = pat}
    IN  IF hits = {} THEN 0 ELSE CHOOSE i \in hits : \A j \in hits : i <= j

\* String.prototype.split(sep) and Array.prototype.join(sep)
RECURSIVE Split(_, _)
Split(s, sep) ==
    LET i == IndexOf(s, sep)
    IN  IF i = 0 THEN <<s>>
        ELSE <<SubSeq(s, 1, i - 1)>> \o Split(SubSeq(s, i + Len(sep), Len(s)), sep)

RECURSIVE Join(_, _)
Join(parts, sep) ==
    IF Len(parts) = 0 THEN ""
    ELSE IF Len(parts) = 1 THEN parts[1]
    ELSE parts[1] \o sep \o Join(Tail(parts), sep)

\* String.prototype.trim
WhiteSpace == {" ", "\t", "\r", "\n"}

RECURSIVE Trim(_)
Trim(s) ==
    IF s # "" /\ CharAt(s, 1) \in WhiteSpace THEN Trim(SubSeq(s, 2, Len(s)))
    ELSE IF s # "" /\ CharAt(s, Len(s)) \in WhiteSpace THEN Trim(SubSeq(s, 1, Len(s) - 1))
    ELSE s

\* --------------------------------------------- the MIME message builders

\* process.env.GMAIL_USER
GMAIL_USER == "me@x.io"

Letters == Chars("ABCDEFGHIJKLMNOPQRSTUVWXYZabcdefghijklmnopqrstuvwxyz")

StartsWith(s, prefix) == Len(s) >= Len(prefix) /\ SubSeq(s, 1, Len(prefix)) = prefix

\* /<[a-z][\s\S]*>/i.test(body): a "<" followed by a letter and, anywhere
\* after that, a ">"
isHtml(body) ==
    \E i \in 1..Len(body) :
        /\ CharAt(body, i) = "<"
        /\ i + 1 <= Len(body)
        /\ CharAt(body, i + 1) \in Letters
        /\ \E j \in (i + 2)..Len(body) : CharAt(body, j) = ">"

contentType(body) ==
    IF isHtml(body) THEN "text/html; charset=UTF-8" ELSE "text/plain; charset=UTF-8"

\* Array.prototype.filter(Boolean) on an array of strings: the empty
\* strings go
FilterBoolean(parts) == SelectSeq(parts, LAMBDA part : part # "")

\* lines 62-73: the array of lines of createSimpleEmail, filtered
messageParts(to, subject, body, cc, bcc) ==
    FilterBoolean(<<
        "From: " \o GMAIL_USER,
        "To: " \o to,
        IF Len(cc) > 0 THEN "Cc: " \o Join(cc, ", ") ELSE "",
        IF Len(bcc) > 0 THEN "Bcc: " \o Join(bcc, ", ") ELSE "",
        "Subject: " \o subject,
        "MIME-Version: 1.0",
        "Content-Type: " \o contentType(body) \o "; charset=\"UTF-8\"",
        "Content-Transfer-Encoding: base64",
        "",
        toBase64(body) >>)

\* lines 56-80
createSimpleEmail(to, subject, body, cc, bcc) ==
    toBase64Url(Join(messageParts(to, subject, body, cc, bcc), CRLF))

\* str.match(/.{1,76}/g): the pieces of 76 characters, the last one shorter
RECURSIVE Chunks(_)
Chunks(str) ==
    IF Len(str) <= 76 THEN <<str>>
    ELSE <<SubSeq(str, 1, 76)>> \o Chunks(SubSeq(str, 77, Len(str)))

\* lines 87-89: str.match(/.{1,76}/g)?.join(CRLF) || str
wrapBase64(str) == IF str = "" THEN str ELSE Join(Chunks(str), CRLF)

\* att.data.replace(/^data:[^;]+;base64,/, "")
cleanData(data) ==
    LET semi == IndexOf(data, ";")
    IN  IF StartsWith(data, "data:") /\ semi >= 7
           /\ StartsWith(SubSeq(data, semi, Len(data)), ";base64,")
        THEN SubSeq(data, semi + 8, Len(data))
        ELSE data

\* lines 92-100
headers(to, subject, cc, bcc, boundary) ==
    Join(FilterBoolean(<<
        "From: " \o GMAIL_USER,
        "To: " \o to,
        IF Len(cc) > 0 THEN "Cc: " \o Join(cc, ", ") ELSE "",
        IF Len(bcc) > 0 THEN "Bcc: " \o Join(bcc, ", ") ELSE "",
        "Subject: " \o subject,
        "MIME-Version: 1.0",
        "Content-Type: multipart/mixed; boundary=\"" \o boundary \o "\"" >>), CRLF)

\* lines 107-111
bodyPart(body, boundary) ==
    "--" \o boundary \o CRLF
        \o "Content-Type: " \o contentType(body) \o "; charset=\"UTF-8\"" \o CRLF
        \o "Content-Transfer-Encoding: base64" \o CRLF \o CRLF
        \o toBase64(body) \o CRLF

\* lines 114-123: the parts of the attachments, one after the other
RECURSIVE attachmentParts(_, _)
attachmentParts(attachments, boundary) ==
    IF Len(attachments) = 0 THEN ""
    ELSE LET att == Head(attachments)
         IN  "--" \o boundary \o CRLF
                 \o "Content-Type: " \o att.type \o "; name=\"" \o att.name \o "\"" \o CRLF
                 \o "Content-Disposition: attachment; filename=\"" \o att.name \o "\"" \o CRLF
                 \o "Content-Transfer-Encoding: base64" \o CRLF \o CRLF
                 \o wrapBase64(cleanData(att.data)) \o CRLF \o CRLF
                 \o attachmentParts(Tail(attachments), boundary)

\* a message that lacks the closing delimiter
finalMessageUnclosed(to, subject, body, cc, bcc, attachments, now) ==
    LET boundary == boundaryToken(now)
    IN  headers(to, subject, cc, bcc, boundary) \o CRLF \o CRLF
            \o bodyPart(body, boundary)
            \o attachmentParts(attachments, boundary)

\* lines 125-129; now is Date.now() as text
finalMessage(to, subject, body, cc, bcc, attachments, now) ==
    LET boundary == boundaryToken(now)
    IN  headers(to, subject, cc, bcc, boundary) \o CRLF \o CRLF
            \o bodyPart(body, boundary)
            \o attachmentParts(attachments, boundary)
            \o "--" \o boundary \o "--"

\* lines 83-136
createEmailWithAttachments(to, subject, body, cc, bcc, attachments, now) ==
    toBase64Url(finalMessage(to, subject, body, cc, bcc, attachments, now))

\* ------------------------------------- the callers of the builders

\* lines 155-156, 209-210 and 1004-1005, 1023-1024:
\* cc ? (Array.isArray(cc) ? cc : cc.split(",").map(e => e.trim())) : []
toList(cc) ==
    IF cc.isArray THEN cc.list
    ELSE IF cc.text = "" THEN << >>
    ELSE LET pieces == Split(cc.text, ",")
         IN  [i \in 1..Len(pieces) |-> Trim(pieces[i])]

\* lines 158-163, 212-217, 1006-1008, 1025-1027: the builder by the number
\* of attachments
buildRaw(to, subject, body, ccList, bccList, attachments, now) ==
    IF Len(attachments) > 0
    THEN createEmailWithAttachments(to, subject, body, ccList, bccList, attachments, now)
    ELSE createSimpleEmail(to, subject, body, ccList, bccList)

\* lines 1007, 1026: attachments.map(a => ({...a, data: a.data.replace(...)}))
endpointAttachments(attachments) ==
    [i \in 1..Len(attachments) |-> [attachments[i] EXCEPT !.data = cleanData(@)]]

\* POST /api/gmail/send (lines 998-1015) and POST /api/gmail/draft (lines
\* 1017-1033): try { ensureAuthenticated(); 400 if a field is missing; build
\* the message; await the Gmail call; 200 } catch { 500 }
MailEndpoint(endpoint, call, to, subject, body, cc, bcc, attachments, now, service) ==
    LET request == MailRequest(endpoint, to, subject, body, cc, bcc, attachments, now)
    IN  IF ~ensureAuthenticated THEN [request EXCEPT !.status = 500]
        ELSE IF to = "" \/ subject = "" \/ body = "" THEN [request EXCEPT !.status = 400]
        ELSE [request EXCEPT
                 !.raw = buildRaw(to, subject, body, toList(cc), toList(bcc),
                                  endpointAttachments(attachments), now),
                 !.call = call,
                 !.status = IF service = "rejects" THEN 500 ELSE 200]

\* the model follows one request to a mail endpoint: the handlers read
\* nothing but tokens and write no state, so the outcome of a request does
\* not depend on the requests before it
GmailSend ==
    /\ mail = NoMail
    /\ \E to \in ToInputs, subject \in SubjectInputs, body \in BodyInputs,
          cc \in EndpointCcInputs, bcc \in EndpointBccInputs,
          attachments \in MailAttachmentInputs, now \in NowInputs,
          service \in ServiceResults :
          mail' = MailEndpoint("send", "messages.send", to, subject, body, cc, bcc,
                               attachments, now, service)
    /\ UNCHANGED <<tokens, conversationHistories, conversationAttachments, req, lastCall,
                   offered, calls>>

GmailDraft ==
    /\ mail = NoMail
    /\ \E to \in ToInputs, subject \in SubjectInputs, body \in BodyInputs,
          cc \in EndpointCcInputs, bcc \in EndpointBccInputs,
          attachments \in MailAttachmentInputs, now \in NowInputs,
          service \in ServiceResults :
          mail' = MailEndpoint("draft", "drafts.create", to, subject, body, cc, bcc,
                               attachments, now, service)
    /\ UNCHANGED <<tokens, conversationHistories, conversationAttachments, req, lastCall,
                   offered, calls>>

MailNext == AuthCallback \/ GmailSend \/ GmailDraft

MailSpec == Init /\ [][MailNext]_vars

\* the envelope of a mail tool: the arguments of a call (and the files it
\* ends up with), drawn from the inputs
MimeInit ==
    /\ tokens = TRUE
    /\ conversationHistories = [s \in AllSessionIds |-> NoSession]
    /\ conversationAttachments = << >>
    /\ req = [r \in Requests |-> IdleRequest]
    /\ lastCall = NoCall
    /\ offered = {}
    /\ calls = << >>
    /\ mail \in {MailRequest("args", to, subject, body, cc, bcc, attachments, now) :
                    to \in ToInputs, subject \in SubjectInputs, body \in BodyInputs,
                    cc \in ToolCcInputs, bcc \in ToolBccInputs,
                    attachments \in MailAttachmentInputs, now \in NowInputs}

\* sendEmailTool lines 155-163 and draftEmailTool lines 209-217: the lists
\* of cc and bcc, then the builder
MailToolBuilds(name) ==
    /\ mail.endpoint = "args"
    /\ mail' = [mail EXCEPT
                   !.endpoint = name,
                   !.raw = buildRaw(mail.to, mail.subject, mail.body, toList(mail.cc),
                                    toList(mail.bcc), mail.attachments, mail.now)]
    /\ UNCHANGED <<tokens, conversationHistories, conversationAttachments, req, lastCall,
                   offered, calls>>

MimeNext == MailToolBuilds("send_email") \/ MailToolBuilds("draft_email")

MimeSpec == MimeInit /\ [][MimeNext]_vars

\* ------------------------------------------------------------------ claims

Turns(sid) == conversationHistories[sid].turns

UserTurn(r) == [role |-> "user", content |-> req[r].userMessage]

InFlight(r) == req[r].pc \in {"creating", "reasoning"}

Ended(r) == req[r].pc \in {"done", "failed"}

\* the files held in staging
FilesOf(atts) == {atts[j] : j \in 1..Len(atts)}

StagedFiles ==
    UNION {FilesOf(conversationAttachments[i].value) : i \in 1..Len(conversationAttachments)}

EnvelopeFiles == FilesOf(lastCall.envelope.attachments)

IsPrefix(a, b) == Len(a) <= Len(b) /\ SubSeq(b, 1, Len(a)) = a

\* C1: the envelope a mail tool builds during a turn of session A carries no
\* file that was staged under another session's id.
C1_EnvelopeFromOwnSession ==
    lastCall.by # 0 =>
        \A a \in EnvelopeFiles : a.src # 0 => req[a.src].sid = req[lastCall.by].sid

\* C2: no tool invocation is given staged files that an earlier invocation
\* was already given.
C2_OfferedAtMostOnce == ~lastCall.again

\* C3: when the turn whose tool invocation consumed the files its own
\* request staged has ended, with success or with an error, those files are
\* no longer in staging.
C3_ConsumedThenAbsent ==
    \A r \in Requests :
        Ended(r) /\ lastCall.by = r =>
            \A a \in EnvelopeFiles : a.src = r => a \notin StagedFiles

\* C4: no two requests of one session have their executor run in flight at
\* the same time.
C4_OneRunPerSession ==
    \A r1, r2 \in Requests :
        r1 # r2 /\ req[r1].pc = "reasoning" /\ req[r2].pc = "reasoning"
            => req[r1].sid # req[r2].sid

\* the turns of a history that carry the message of request r
TurnsOf(r, sid) == {i \in 1..Len(Turns(sid)) : Turns(sid)[i] = UserTurn(r)}

\* turns 2k-1 and 2k of a history are the user turn of one request and the
\* assistant turn that answers it
PairedHistory(sid) ==
    /\ Len(Turns(sid)) % 2 = 0
    /\ \A k \in 1..(Len(Turns(sid)) \div 2) :
          \E r \in Requests :
              /\ req[r].pc = "done"
              /\ req[r].sid = sid
              /\ Turns(sid)[2 * k - 1] = UserTurn(r)
              /\ Turns(sid)[2 * k] = [role |-> "assistant", content |-> req[r].output]

\* C5: whatever the interleaving, every history has even length and is made
\* of pairs (user turn of a request, assistant turn of the same request),
\* and a request that completed successfully has exactly one such pair in
\* the history of its session.
C5_HistoryAlternates ==
    /\ \A sid \in AllSessionIds : PairedHistory(sid)
    /\ \A r \in Requests :
          req[r].pc = "done" => Cardinality(TurnsOf(r, req[r].sid)) = 1

\* two requests of one session, the one that arrived second answered first
C5_Witness ==
    /\ req[1].pc = "done" /\ req[2].pc = "done" /\ req[1].sid = req[2].sid
    /\ Turns(req[1].sid)[1] = UserTurn(2)
    /\ Turns(req[1].sid)[3] = UserTurn(1)

\* C6: every step leaves each history a prefix of what it becomes: turns
\* are only appended, never reordered, dropped or changed.
C6_HistoryAppendOnly ==
    [][\A sid \in AllSessionIds : IsPrefix(Turns(sid), Turns(sid)')]_vars

\* a history that was appended to twice
C6_Witness == \E sid \in AllSessionIds : Len(Turns(sid)) = 4

\* C7: a turn whose executor creation or executor.invoke fails answers
\* {message: error text, success: false}; the failing step changes no
\* history, and no history ever holds the user turn of a failed request.
C7_FailureLeavesHistory ==
    [][\A r \in Requests :
          /\ (req[r].pc # "failed" /\ req'[r].pc = "failed") =>
                /\ req'[r].output \in {ErrorMessage("createAgentExecutor"),
                                       ErrorMessage("reasoning"),
                                       ErrorMessage("schema")}
                /\ conversationHistories' = conversationHistories
          /\ req'[r].pc = "failed" =>
                \A sid \in AllSessionIds : TurnsOf(r, sid)' = {}]_vars

\* a turn failed in its reasoning step in a session that already has turns
C7_Witness ==
    \E r \in Requests :
        /\ req[r].pc = "failed"
        /\ req[r].output = ErrorMessage("reasoning")
        /\ Len(Turns(req[r].sid)) = 2

\* C8: a turn never makes more than 8 round trips; the executor stops a turn
\* at the cap exactly when 8 round trips were made; and every turn that was
\* started ends (with an answer, with the stopped output or with an error).
C8_IterationCap ==
    /\ [](\A r \in Requests : req[r].iterations <= 8)
    /\ [][\A r \in Requests :
             (req[r].pc = "reasoning" /\ req'[r].output = StoppedOutput)
                 => req[r].iterations = 8]_vars
    /\ \A r \in Requests : InFlight(r) ~> Ended(r)

\* a turn the executor stopped at the cap
C8_Witness == \E r \in Requests : req[r].pc # "reasoning" /\ req[r].output = StoppedOutput

\* C9: the step that ends a turn at the iteration cap leaves the user turn
\* of the request in the session's history, and it stays there.
C9_CapKeepsUserTurn ==
    /\ [][\A r \in Requests :
             (req[r].pc = "reasoning" /\ ~shouldContinue(req[r].iterations)
                 /\ req'[r].pc # "reasoning")
                 => TurnsOf(r, req[r].sid)' # {}]_vars
    /\ [](\A r \in Requests :
             req[r].output = StoppedOutput => TurnsOf(r, req[r].sid) # {})

\* a turn ended at the cap: its user turn and the stopped output close the history
C9_Witness ==
    \E r \in Requests :
        LET h == Turns(req[r].sid)
        IN  /\ req[r].pc = "done"
            /\ Len(h) >= 2
            /\ h[Len(h) - 1] = UserTurn(r)
            /\ h[Len(h)] = [role |-> "assistant", content |-> StoppedOutput]

\* C10: a tool handler never ends the turn: no turn fails with what a
\* handler threw; a round trip whose service call failed returns an error
\* text as its observation and hands control back to the loop.
C10_ToolsNeverThrow ==
    /\ [](\A r \in Requests : req[r].output # ErrorMessage("tool"))
    /\ [](lastCall.service = "rejects" => lastCall.observation = "error")
    /\ [][\A r \in Requests :
             (req[r].pc = "reasoning" /\ shouldContinue(req[r].iterations)
                 /\ lastCall' # lastCall /\ lastCall'.by = r
                 /\ lastCall'.args = "valid")
                 => /\ req'[r].pc = "reasoning"
                    /\ req'[r].iterations = req[r].iterations + 1]_vars

\* a round trip whose service call failed, the turn going on
C10_Witness ==
    /\ lastCall.by # 0
    /\ lastCall.service = "rejects"
    /\ lastCall.observation = "error"
    /\ req[lastCall.by].pc = "reasoning"


\* C11: a tool call whose arguments lack a required field returns an error
\* outcome (an error observation), its handler is not run and no service
\* call is issued for it.
C11_InvalidArgsErrorOutcome ==
    lastCall.args = "invalid" =>
        /\ lastCall.observation = "error"
        /\ lastCall.service = "none"
        /\ lastCall.envelope = NoEnvelope

\* C12: a tool call whose arguments fail the schema never aborts the turn:
\* no turn ends with the error of the arguments' parse.
C12_SchemaFailureKeepsTurn ==
    \A r \in Requests : req[r].output # ErrorMessage("schema")


\* C13: tool failures are soft, reasoning failure and non-convergence are
\* hard: no turn ends with what a tool handler threw, and a turn that was
\* stopped at the iteration cap or whose reasoning call failed is answered
\* with success false.
C13_SoftAndHardFailures ==
    \A r \in Requests :
        /\ req[r].output # ErrorMessage("tool")
        /\ req[r].output = ErrorMessage("reasoning") => req[r].pc = "failed"
        /\ req[r].output = StoppedOutput => req[r].pc = "failed"


Running == {k \in 1..Len(calls) : calls[k].status = "running"}

\* C15: the tool calls of one round trip run one after the other in request
\* order: call k+1 has not started unless call k has returned, and at most
\* one handler is executing.
C15_SequentialDispatch ==
    /\ \A k \in 1..(Len(calls) - 1) :
          calls[k + 1].status # "requested" => calls[k].status = "returned"
    /\ Cardinality(Running) <= 1


\* C16: the chat endpoint answers 400 to every request without a message,
\* with or without a credential, and 401 to every request with a message
\* while no credential is held; such a request creates no session, stages
\* nothing, and the agent is never run for it.
C16_ChatAdmission ==
    [][\A r \in Requests :
          /\ (req[r].pc = "idle" /\ req'[r].pc # "idle") =>
                /\ req'[r].userMessage = NoMessage => req'[r].pc = "r400"
                /\ (req'[r].userMessage # NoMessage /\ ~tokens) => req'[r].pc = "r401"
                /\ req'[r].pc \in {"r400", "r401"} =>
                      /\ conversationHistories' = conversationHistories
                      /\ conversationAttachments' = conversationAttachments
                      /\ lastCall' = lastCall
          /\ req[r].pc \in {"r400", "r401"} => req'[r] = req[r]]_vars

\* a request with a message refused while no credential was held, and one
\* without a message refused after the authorization
C16_Witness ==
    /\ tokens
    /\ req[1].pc = "r401" /\ req[1].userMessage = Msg(1)
    /\ req[2].pc = "r400" /\ req[2].userMessage = NoMessage


\* C17: the mail endpoints answer 400 to every request that lacks to,
\* subject or body, whether or not a credential is held, and issue no Gmail
\* call for it.
C17_MissingFieldsAnswer400 ==
    (mail.endpoint \in {"send", "draft"}
        /\ (mail.to = "" \/ mail.subject = "" \/ mail.body = "")) =>
        /\ mail.status = 400
        /\ mail.call = "none"

\* --- reading a raw message back: what a recipient of the message does

SextetOf(c) == IF c \in DOMAIN SextetValue THEN SextetValue[c] ELSE 0

\* four characters make one to three bytes
DecodeGroup(g) ==
    LET n == SextetOf(CharAt(g, 1)) * 262144 + SextetOf(CharAt(g, 2)) * 4096
                 + SextetOf(CharAt(g, 3)) * 64 + SextetOf(CharAt(g, 4))
    IN  fromCharCode(n \div 65536)
            \o (IF CharAt(g, 3) = "=" THEN "" ELSE fromCharCode((n \div 256) % 256))
            \o (IF CharAt(g, 4) = "=" THEN "" ELSE fromCharCode(n % 256))

RECURSIVE fromBase64(_)
fromBase64(s) ==
    IF Len(s) < 4 THEN ""
    ELSE IF Len(s) = 4 THEN DecodeGroup(s)
    ELSE LET h == 4 * ((Len(s) + 7) \div 8)
         IN  fromBase64(SubSeq(s, 1, h)) \o fromBase64(SubSeq(s, h + 1, Len(s)))

\* URL-safe base64 without padding, back to the text
fromBase64Url(raw) ==
    LET std == ReplaceChar(ReplaceChar(raw, "-", "+"), "_", "/")
    IN  fromBase64(std \o (IF Len(std) % 4 = 2 THEN "=="
                           ELSE IF Len(std) % 4 = 3 THEN "=" ELSE ""))

Min(S) == CHOOSE i \in S : \A j \in S : i <= j

\* the first empty line of a sequence of lines, 0 if there is none
SeparatorAt(lines) ==
    LET blanks == {i \in 1..Len(lines) : lines[i] = ""}
    IN  IF blanks = {} THEN 0 ELSE Min(blanks)

\* the header block is what precedes the first empty line, the body section
\* what follows it
HeaderBlock(lines) ==
    IF SeparatorAt(lines) = 0 THEN lines ELSE SubSeq(lines, 1, SeparatorAt(lines) - 1)

BodySection(lines) ==
    IF SeparatorAt(lines) = 0 THEN << >>
    ELSE SubSeq(lines, SeparatorAt(lines) + 1, Len(lines))

\* the values of the header lines "name: value" of a block
HeaderValues(block, name) ==
    LET sel == SelectSeq(block, LAMBDA line : StartsWith(line, name \o ": "))
    IN  [i \in 1..Len(sel) |-> SubSeq(sel[i], Len(name) + 3, Len(sel[i]))]

\* the lines of the first part of a multipart body section: from the first
\* delimiter line to the next line that begins with the delimiter
FirstPart(section, delimiter) ==
    LET opens == {i \in 1..Len(section) : section[i] = delimiter}
        next  == {i \in 1..Len(section) :
                     i > Min(opens) /\ StartsWith(section[i], delimiter)}
    IN  IF opens = {} \/ next = {} THEN << >>
        ELSE SubSeq(section, Min(opens) + 1, Min(next) - 1)

\* the boundary a multipart message declares in its Content-Type header
DeclaredBoundary(block) ==
    LET values == HeaderValues(block, "Content-Type")
        at == IF Len(values) = 0 THEN 0 ELSE IndexOf(values[1], "boundary=\"")
    IN  IF at = 0 THEN "" ELSE SubSeq(values[1], at + 10, Len(values[1]) - 1)

\* a message was built for the request
Built == mail.raw # ""

DecodedLines == Split(fromBase64Url(mail.raw), CRLF)

\* the base64 text of the body as a reader isolates it: on the single-part
\* message the body section, on the multipart message the payload of the
\* first part
DecodedBodyPayload ==
    LET section == BodySection(DecodedLines)
    IN  IF Len(mail.attachments) = 0 THEN Join(section, "")
        ELSE Join(BodySection(FirstPart(section,
                      "--" \o DeclaredBoundary(HeaderBlock(DecodedLines)))), "")

\* C18: the lines of a message made by createSimpleEmail are the header
\* lines, none of them empty, ending with Content-Transfer-Encoding, then
\* one empty line, then the base64 text of the body.
C18_SeparatorLine ==
    (Built /\ Len(mail.attachments) = 0) =>
        \E k \in 1..Len(DecodedLines) :
            /\ DecodedLines[k] = "Content-Transfer-Encoding: base64"
            /\ \A i \in 1..k : DecodedLines[i] # ""
            /\ Len(DecodedLines) >= k + 2
            /\ DecodedLines[k + 1] = ""
            /\ Join(SubSeq(DecodedLines, k + 2, Len(DecodedLines)), CRLF) = toBase64(mail.body)

\* C19: read back, a message carries exactly the recipients and the subject
\* it was built with in its header block, and the body section, base64
\* decoded, is the body text; with and without attachments.
C19_RoundTrip ==
    Built =>
        LET block == HeaderBlock(DecodedLines)
            expect(list) == IF Len(list) = 0 THEN << >> ELSE <<Join(list, ", ")>>
        IN  /\ HeaderValues(block, "To") = <<mail.to>>
            /\ HeaderValues(block, "Cc") = expect(toList(mail.cc))
            /\ HeaderValues(block, "Bcc") = expect(toList(mail.bcc))
            /\ HeaderValues(block, "Subject") = <<mail.subject>>
            /\ fromBase64(DecodedBodyPayload) = mail.body

\* C20: a message built with no cc (bcc) address has no Cc: (Bcc:) line, and
\* a Cc: (Bcc:) line is there only with a non-empty address and never with
\* an empty value, also when the tool is given a blank cc or bcc string.
C20_NoEmptyCcBcc ==
    Built =>
        \A h \in {[name |-> "Cc", list |-> toList(mail.cc)],
                  [name |-> "Bcc", list |-> toList(mail.bcc)]} :
            LET values == HeaderValues(HeaderBlock(DecodedLines), h.name)
            IN  /\ Len(h.list) = 0 => Len(values) = 0
                /\ Len(values) > 0 => \E i \in 1..Len(h.list) : h.list[i] # ""
                /\ \A i \in 1..Len(values) : values[i] # ""

\* --- reading a multipart message: the delimiter lines and the parts

\* the k-th smallest number of a set of numbers
Nth(S, k) == CHOOSE i \in S : Cardinality({j \in S : j < i}) = k - 1

\* the delimiter a message declares in its header
Delimiter(lines) == "--" \o DeclaredBoundary(HeaderBlock(lines))

\* the lines that open a part and the lines that close the message
OpenLines(lines) ==
    LET delimiter == Delimiter(lines)
    IN  {i \in 1..Len(lines) : lines[i] = delimiter}

CloseLines(lines) ==
    LET closing == Delimiter(lines) \o "--"
    IN  {i \in 1..Len(lines) : lines[i] = closing}

\* the lines of the k-th part: from its opening line to the next delimiter
PartLines(lines, k) ==
    LET opens == OpenLines(lines)
        open == Nth(opens, k)
        ends == {i \in opens \cup CloseLines(lines) : i > open}
    IN  IF ends = {} THEN SubSeq(lines, open + 1, Len(lines))
        ELSE SubSeq(lines, open + 1, Min(ends) - 1)

\* C21: a message built by createEmailWithAttachments with n attachments
\* has n + 1 lines that open a part; the first part is the body (no
\* Content-Disposition, its payload decodes to the body text), part k + 1
\* has Content-Disposition: attachment with the name of the k-th
\* attachment as filename, and the closing delimiter is there once, as the
\* last line.
C21_MultipartStructure ==
    (Built /\ Len(mail.attachments) > 0) =>
        LET n == Len(mail.attachments)
            lines == DecodedLines
            body == PartLines(lines, 1)
        IN  /\ Cardinality(OpenLines(lines)) = n + 1
            /\ CloseLines(lines) = {Len(lines)}
            /\ \A i \in OpenLines(lines) : i > SeparatorAt(lines)
            /\ HeaderValues(HeaderBlock(body), "Content-Disposition") = << >>
            /\ fromBase64(Join(BodySection(body), "")) = mail.body
            /\ \A k \in 1..n :
                   HeaderValues(HeaderBlock(PartLines(lines, k + 1)), "Content-Disposition")
                       = <<"attachment; filename=\"" \o mail.attachments[k].name \o "\"">>

\* a message with two attachments was built and read back as three parts
C21_Witness ==
    /\ Built
    /\ Len(mail.attachments) = 2
    /\ Cardinality(OpenLines(DecodedLines)) = 3
    /\ mail.attachments[1].name # mail.attachments[2].name

\* the files staged under a session id (<< >>: the Map has no entry for it)
StagedFor(m, sid) ==
    IF MapHas(m, sid) THEN m[CHOOSE i \in MapIndex(m, sid) : TRUE].value ELSE << >>

\* C22: when handleConversation is given a non-empty attachments list, the
\* Map has, right after, one entry for the session and its value is that
\* list, whatever was staged for the session before; the entries of the
\* other sessions are as they were.
C22_StagingReplaces ==
    [][\A r \in Requests :
          (req[r].pc = "idle" /\ req'[r].pc = "creating" /\ Len(req'[r].attachments) > 0) =>
              /\ Cardinality(MapIndex(conversationAttachments', req'[r].sid)) = 1
              /\ StagedFor(conversationAttachments', req'[r].sid) = req'[r].attachments
              /\ \A sid \in AllSessionIds \ {req'[r].sid} :
                     StagedFor(conversationAttachments', sid)
                         = StagedFor(conversationAttachments, sid)]_vars

\* a request has staged a file over the file an earlier request of the same
\* session had staged and no turn had consumed
C22_Witness ==
    \E r, q \in Requests :
        /\ q < r
        /\ req[q].sid = req[r].sid
        /\ Len(req[q].attachments) > 0
        /\ req[q].pc \in {"creating", "reasoning", "failed"}
        /\ req[r].pc = "creating"
        /\ Len(req[r].attachments) > 0
        /\ StagedFor(conversationAttachments, req[r].sid) = req[r].attachments

\* a block of lines ends with its blank separator line and holds an empty
\* base64 payload after it
EmptyPayloadAfterHeaders(lines) ==
    /\ SeparatorAt(lines) > 1
    /\ lines[SeparatorAt(lines) - 1] = "Content-Transfer-Encoding: base64"
    /\ Len(HeaderValues(HeaderBlock(lines), "Content-Type")) = 1
    /\ Join(BodySection(lines), "") = ""

\* C23: a message built with an empty body has the blank separator line
\* after its header block and an empty body section (no attachments), or a
\* body part with its two headers, the blank line and an empty payload
\* (attachments).
C23_EmptyBodyEnvelope ==
    (Built /\ mail.body = "") =>
        LET lines == DecodedLines
        IN  IF Len(mail.attachments) = 0
            THEN EmptyPayloadAfterHeaders(lines)
            ELSE /\ Cardinality(OpenLines(lines)) = Len(mail.attachments) + 1
                 /\ EmptyPayloadAfterHeaders(PartLines(lines, 1))

\* the data of a data URI is what follows its first comma (RFC 2397:
\* data:[<mediatype>][;base64],<data>); other text is data as it stands
WithoutDataUriPrefix(data) ==
    IF StartsWith(data, "data:") /\ IndexOf(data, ",") > 0
    THEN SubSeq(data, IndexOf(data, ",") + 1, Len(data))
    ELSE data

\* the payload lines of a part: the lines after its headers, the blank
\* lines that end the part left out
PayloadLines(part) == SelectSeq(BodySection(part), LAMBDA line : line # "")

\* C24: in a message built by createEmailWithAttachments the payload lines
\* of the part of every attachment, joined, are the attachment's data
\* without a leading data-URI prefix (data that has none: the data itself);
\* every payload line but the last has 76 characters and the last at most 76.
C24_PayloadStrippedAndWrapped ==
    (Built /\ Len(mail.attachments) > 0) =>
        LET lines == DecodedLines
        IN  \A k \in 1..Len(mail.attachments) :
                LET payload == PayloadLines(PartLines(lines, k + 1))
                IN  /\ Join(payload, "") = WithoutDataUriPrefix(mail.attachments[k].data)
                    /\ \A i \in 1..Len(payload) :
                           IF i < Len(payload) THEN Len(payload[i]) = 76
                           ELSE Len(payload[i]) <= 76

\* the calls of the round trip under way whose handler has started
Started == {k \in 1..Len(calls) : calls[k].status # "requested"}

\* the started calls of the mail tools
MailCalls == {k \in Started : calls[k].name \in {"send_email", "draft_email"}}

\* C25: two messages built by createEmailWithAttachments carry different
\* boundary tokens, also when they are built for two calls of one round
\* trip within the same millisecond.
C25_BoundaryUnique ==
    \A j, k \in Started :
        (j # k /\ calls[j].boundary # "" /\ calls[k].boundary # "") =>
            calls[j].boundary # calls[k].boundary

\* C26: a mail tool that finds a non-empty staged set builds its message
\* with exactly the staged files and none of the files of its arguments;
\* one that finds nothing staged builds it with exactly the files of its
\* arguments; the number in the success text is the number of files the
\* message was built with.
C26_StagedBeforeExplicit ==
    \A k \in MailCalls :
        /\ IF StagedHits # {}
           THEN /\ calls[k].envelope.attachments =
                       conversationAttachments[FirstStagedIndex].value
                /\ ArgFile \notin FilesOf(calls[k].envelope.attachments)
           ELSE calls[k].envelope.attachments = calls[k].explicit
        /\ (calls[k].status = "returned" /\ calls[k].observation = "ok") =>
               calls[k].count = Len(calls[k].envelope.attachments)

\* a mail tool was given a file in its arguments while a file was staged,
\* built its message with the staged file and returned the success text
C26_Witness ==
    \E k \in MailCalls :
        /\ calls[k].explicit = <<ArgFile>>
        /\ StagedHits # {}
        /\ calls[k].envelope.attachments = <<Upload(1)>>
        /\ calls[k].status = "returned"
        /\ calls[k].observation = "ok"
        /\ calls[k].count = 1

\* C27: a tool invocation issues its Gmail call at most once, rejected or
\* not: send_email one messages.send, draft_email one drafts.create.
C27_NoRetry ==
    \A k \in MailCalls :
        /\ Len(calls[k].issued) <= 1
        /\ \A i \in 1..Len(calls[k].issued) : calls[k].issued[i] = ServiceOf(calls[k].name)

\* the Gmail call of a send_email invocation was rejected and the handler
\* has returned its error text, having issued the one call
C27_Witness ==
    \E k \in MailCalls :
        /\ calls[k].name = "send_email"
        /\ calls[k].status = "returned"
        /\ calls[k].observation = "error"
        /\ calls[k].issued = <<"messages.send">>

\* request r is accepted in this step and names session sid
Arrives(r, sid) == req[r].pc = "idle" /\ req'[r].pc = "creating" /\ req'[r].sid = sid

\* C28: a session the store has stays in the store; a session enters the
\* store only when an accepted chat request names it, and with an empty
\* history; a request that names a session the store has leaves its history
\* as it is, and no step takes turns away from it.
C28_SessionsPersist ==
    [][\A sid \in AllSessionIds :
          /\ conversationHistories[sid].has =>
                 /\ conversationHistories'[sid].has
                 /\ IsPrefix(Turns(sid), conversationHistories'[sid].turns)
                 /\ (\E r \in Requests : Arrives(r, sid)) =>
                        conversationHistories'[sid].turns = Turns(sid)
          /\ (~conversationHistories[sid].has /\ conversationHistories'[sid].has) =>
                 /\ conversationHistories'[sid].turns = << >>
                 /\ \E r \in Requests : Arrives(r, sid)]_vars

\* a request that names a session with two turns in its history is under
\* way and the two turns are there
C28_Witness ==
    \E r, q \in Requests :
        /\ q < r
        /\ req[q].pc = "done"
        /\ req[r].pc = "creating"
        /\ req[r].sid = req[q].sid
        /\ Len(Turns(req[r].sid)) = 2

\* C29: a mail tool invoked in the turn of a request that uploaded nothing,
\* with no attachments in its arguments, builds its message with
\* createSimpleEmail, without attachments.
C29_NoUploadNoAttachment ==
    \A r \in Requests :
        (/\ lastCall.by = r
         /\ lastCall.envelope.builder # "none"
         /\ req[r].attachments = << >>
         /\ lastCall.explicit = << >>) =>
            /\ lastCall.envelope.builder = "createSimpleEmail"
            /\ lastCall.envelope.attachments = << >>

\* C30: while a request that uploaded files is in flight, the files are
\* staged under its session id.
C30_StagedWhileInFlight ==
    \A r \in Requests :
        (InFlight(r) /\ Len(req[r].attachments) > 0) =>
            StagedFor(conversationAttachments, req[r].sid) = req[r].attachments

=============================================================================
